---- MODULE Spec2Model ----
(***************************************************************************)
(* Model of the SQL result view of blitzdb                                 *)
(* (blitzdb/backends/sql/queryset.py, class QuerySet) and of the row       *)
(* unpacking engine nested in QuerySet.get_objects.                        *)
(*                                                                         *)
(* Python's None is modelled as the empty sequence and a present value x   *)
(* as <<x>>, so that "x is None" and the truth test "if x:" are distinct.  *)
(***************************************************************************)
EXTENDS Integers, Sequences, FiniteSets, TLC

(* ---------------- bounds of the model ---------------- *)
MaxRows == 2        \* rows of the base table
MaxYear == 2        \* birth_year values are 1..MaxYear
MaxExec == 2        \* materializations counted per view between plan changes
MaxLeaves == 2      \* operands of a select override built by intersect
MaxParents == 2     \* root entities of an unpacked row-set
MaxKids == 2        \* entities of a related collection
MaxArg == 1         \* arguments of limit and offset are 1..MaxArg

(* SQL NULL / the value of a field that the document does not have *)
NULL == 0

NONE == << >>
Some(x) == << x >>
\* Python truth value of an optional integer: None and 0 are false
Truthy(o) == o # << >> /\ o[1] # 0

Years == 1 .. MaxYear
\* the variables of the caller that hold a view
ViewIds == {"a", "b"}

(* ---------------- the relational engine ---------------- *)

\* WHERE clause of a plan: key = "" is "no condition" (condition is None)
NoCondition == [key |-> "", value |-> NULL]
Conditions == {NoCondition} \cup {[key |-> "birth_year", value |-> y] : y \in Years}

Matches(row, condition) ==
    \/ condition.key = ""
    \/ (row[condition.key] # NULL /\ row[condition.key] = condition.value)

RECURSIVE Where(_, _)
Where(rows, condition) ==
    IF rows = << >> THEN << >>
    ELSE IF Matches(Head(rows), condition)
         THEN << Head(rows) >> \o Where(Tail(rows), condition)
         ELSE Where(Tail(rows), condition)

\* a < b under the engine's ordering of NULL (asc); nullsLow is the engine's
\* choice: NULL sorts before every value (SQLite, MySQL) or after (PostgreSQL)
LessVal(a, b, nullsLow) ==
    IF a = NULL THEN (b # NULL /\ nullsLow)
    ELSE IF b = NULL THEN ~nullsLow
    ELSE a < b

RECURSIVE Before(_, _, _, _)
\* r1 sorts strictly before r2 under the ORDER BY list
Before(r1, r2, order_bys, nullsLow) ==
    IF order_bys = << >> THEN FALSE
    ELSE LET ob == Head(order_bys)
             a == IF ob.dir = "asc" THEN r1[ob.column] ELSE r2[ob.column]
             b == IF ob.dir = "asc" THEN r2[ob.column] ELSE r1[ob.column]
         IN IF LessVal(a, b, nullsLow) THEN TRUE
            ELSE IF LessVal(b, a, nullsLow) THEN FALSE
            ELSE Before(r1, r2, Tail(order_bys), nullsLow)

RECURSIVE InsertSorted(_, _, _, _)
InsertSorted(sorted, r, order_bys, nullsLow) ==
    IF sorted = << >> THEN << r >>
    ELSE IF Before(r, Head(sorted), order_bys, nullsLow)
         THEN << r >> \o sorted
         ELSE << Head(sorted) >> \o InsertSorted(Tail(sorted), r, order_bys, nullsLow)

RECURSIVE OrderBy(_, _, _)
OrderBy(rows, order_bys, nullsLow) ==
    IF rows = << >> THEN << >>
    ELSE InsertSorted(OrderBy(SubSeq(rows, 1, Len(rows) - 1), order_bys, nullsLow),
                      rows[Len(rows)], order_bys, nullsLow)

Drop(rows, n) == SubSeq(rows, n + 1, Len(rows))
Take(rows, n) == SubSeq(rows, 1, IF n < Len(rows) THEN n ELSE Len(rows))

\* one SELECT over the base table: the statement get_select builds when no
\* override is set
LeafPlan(q) ==
    [condition |-> q.condition, order_bys |-> q.order_bys,
     offset |-> q.offset, limit |-> q.limit]

ExecLeaf(p, tbl, nullsLow) ==
    LET w == Where(tbl, p.condition)
        o == IF p.order_bys # NONE /\ p.order_bys[1] # << >>
             THEN OrderBy(w, p.order_bys[1], nullsLow) ELSE w
        f == IF Truthy(p.offset) THEN Drop(o, p.offset[1]) ELSE o
    IN IF Truthy(p.limit) THEN Take(f, p.limit[1]) ELSE f

Range(s) == {s[i] : i \in DOMAIN s}

RECURSIVE InAll(_, _, _, _)
InAll(row, leaves, tbl, nullsLow) ==
    IF leaves = << >> THEN TRUE
    ELSE /\ row \in Range(ExecLeaf(Head(leaves), tbl, nullsLow))
         /\ InAll(row, Tail(leaves), tbl, nullsLow)

RECURSIVE ExecIntersect(_, _, _, _)
\* INTERSECT of the operand selects, rows reported in storage order
ExecIntersect(rows, leaves, tbl, nullsLow) ==
    IF rows = << >> THEN << >>
    ELSE IF InAll(Head(rows), leaves, tbl, nullsLow)
         THEN << Head(rows) >> \o ExecIntersect(Tail(rows), leaves, tbl, nullsLow)
         ELSE ExecIntersect(Tail(rows), leaves, tbl, nullsLow)

\* a get_select that shapes the override with the view's own fields
M_get_select(q) ==
    IF q.select # NONE THEN q.select[1] \o << LeafPlan(q) >> ELSE << LeafPlan(q) >>

\* get_select: the statement of a view, as the list of its INTERSECT
\* operands; a select override wins over every other field of the plan
get_select(q) ==
    IF q.select # NONE THEN q.select[1] ELSE << LeafPlan(q) >>

\* rows returned by executing get_select(q)
ExecSelect(q, tbl, nullsLow) ==
    IF q.select # NONE
    THEN ExecIntersect(tbl, get_select(q), tbl, nullsLow)
    ELSE ExecLeaf(get_select(q)[1], tbl, nullsLow)

(* ---------------- the row unpacking engine ---------------- *)

\* A keymap is [leaves |-> function logical field -> column label,
\*              branches |-> sequence of [key, m2m, km]] in the iteration
\* order of the dict; m2m tells '__many_to_many' from '__foreign_key'.
\* An unpacked dict is [leaf |-> function field -> value,
\*                      rel |-> sequence of [key, m2m, items]].

RECURSIVE unpack_single_object(_, _, _)
RECURSIVE unpack_many_to_many(_, _, _, _, _)
RECURSIVE unpack_branches(_, _, _, _, _)

\* unpack_many_to_many that stops after the first related object
M_unpack_many_to_many(objects, keymap, pk_key, pk_value, objs) ==
    LET r == unpack_single_object(objects, keymap, TRUE)
    IN [items |-> Append(objs, r.d), objects |-> r.objects]

\* the loop of unpack_many_to_many; objs is the list built so far
unpack_many_to_many(objects, keymap, pk_key, pk_value, objs) ==
    LET r == unpack_single_object(objects, keymap, TRUE)
        objs2 == Append(objs, r.d)
    IN IF Len(r.objects) > 1 /\ r.objects[2][pk_key] = pk_value
       THEN unpack_many_to_many(Tail(r.objects), keymap, pk_key, pk_value, objs2)
       ELSE [items |-> objs2, objects |-> r.objects]

\* the relationship entries of the keymap loop of unpack_single_object,
\* from branch i on; obj is the row the call started with
unpack_branches(objects, keymap, obj, i, rel) ==
    IF i > Len(keymap.branches) THEN [rel |-> rel, objects |-> objects]
    ELSE LET b == keymap.branches[i]
             r == IF b.m2m
                  THEN unpack_many_to_many(objects, b.km, keymap.leaves["pk"],
                                           obj[keymap.leaves["pk"]], << >>)
                  ELSE LET s == unpack_single_object(objects, b.km, TRUE)
                       IN [items |-> << s.d >>, objects |-> s.objects]
         IN unpack_branches(r.objects, keymap, obj, i + 1,
                            Append(rel, [key |-> b.key, m2m |-> b.m2m, items |-> r.items]))

unpack_single_object(objects, keymap, nested) ==
    LET obj == objects[1]
        br == unpack_branches(objects, keymap, obj, 1, << >>)
        d == [leaf |-> [k \in DOMAIN keymap.leaves |-> obj[keymap.leaves[k]]],
              rel |-> br.rel]
    IN [d |-> d, objects |-> IF nested THEN br.objects ELSE Tail(br.objects)]

RECURSIVE unpack_all(_, _)
\* the fold loop "while objects: self.objects.append(unpack_single_object(...))"
unpack_all(objects, keymap) ==
    IF objects = << >> THEN << >>
    ELSE LET r == unpack_single_object(objects, keymap, FALSE)
         IN << r.d >> \o unpack_all(r.objects, keymap)

\* the columns of the base table
TableColumns == {"pk", "birth_year"}

\* a keymap that labels every field with the primary-key column
M_flat_keymap(columns) == [leaves |-> [c \in columns |-> "pk"], branches |-> << >>]

\* the keymap built without include: "for column in s_cte.columns:
\* keymap[column.name] = column.name", and no join
flat_keymap(columns) == [leaves |-> [c \in columns |-> c], branches |-> << >>]

\* keymap of a view without include: every column of the CTE under its own name
FlatKeymap == flat_keymap(TableColumns)

(* ---------------- the deserializer ---------------- *)

\* Backend.create_instance: an instance of the view's class holding the dict
Deserialize(d) == [cls |-> "Actor", attributes |-> d]

DeserializeAll(ds) == [i \in DOMAIN ds |-> Deserialize(ds[i])]

(* ---------------- state ---------------- *)

VARIABLES
    table,      \* rows of the base table, in storage order
    nullsLow,   \* the engine orders NULL before every value
    views,      \* the QuerySet objects, by slot
    ret,        \* what the last call returned or raised
    closed,     \* the connection rejects every statement
    inst,       \* relational instance behind the joined row-set being unpacked
    keymap,     \* keymap of the row-set being unpacked
    rowset,     \* get_objects: the rows not yet unpacked ("objects")
    out,        \* get_objects: the dicts unpacked so far ("self.objects")
    classes,    \* Backend.classes: registered class -> its collection name
    collections,          \* Backend.collections: collection name -> class
    deprecated_classes,   \* Backend.deprecated_classes: replaced class -> its collection name
    call        \* the last call on the backend, with what it returned or raised

viewVars == << table, nullsLow, views, ret, closed >>
unpackVars == << inst, keymap, rowset, out >>
backendVars == << classes, collections, deprecated_classes, call >>
vars == << viewVars, unpackVars, backendVars >>

\* a call on the backend and its outcome
Call(op, arg, val, err) == [op |-> op, arg |-> arg, val |-> val, err |-> err]

\* Backend.__init__ with autodiscover_classes = False: nothing is registered
BackendIdle ==
    /\ classes = << >>
    /\ collections = << >>
    /\ deprecated_classes = << >>
    /\ call = Call("init", << >>, << >>, "")

\* QuerySet.__init__; nmat counts the unpacking queries executed since the
\* plan was last changed, npop the pop calls since the last materialization.
\* it is self._it: None, or a reference to a generator, named by the view
\* whose iter(self) created it; gen is the state of the generator a view
\* created (the list it walks and how far it has come)
NewQuerySet(condition, select) ==
    [alive |-> TRUE, condition |-> condition, select |-> select,
     limit |-> NONE, offset |-> NONE, order_bys |-> NONE,
     objects |-> NONE, pop_objects |-> NONE, count |-> NONE,
     nmat |-> 0, npop |-> 0, it |-> NONE, gen |-> NONE]

\* an empty slot
NoView == [NewQuerySet(NoCondition, NONE) EXCEPT !.alive = FALSE]

Alive == {v \in ViewIds : views[v].alive}

\* log lists what the call did on the backend: begin, execute, commit, rollback
Ret(op, v, val, num, err) ==
    [op |-> op, view |-> v, val |-> val, num |-> num, err |-> err, pks |-> {},
     log |-> << >>]

\* every table of at most MaxRows rows; pk is the insertion number
Tables ==
    UNION {{[i \in 1 .. n |-> [pk |-> i, birth_year |-> f[i]]] :
              f \in [1 .. n -> Years \cup {NULL}]} : n \in 0 .. MaxRows}

\* no row-set is being unpacked step by step
NoInstance == [shape |-> "flat", n |-> 0, ra |-> << >>, rb |-> << >>, rc |-> << >>]

UnpackIdle ==
    /\ inst = NoInstance
    /\ keymap = FlatKeymap
    /\ rowset = << >>
    /\ out = << >>

Init ==
    /\ UnpackIdle
    /\ BackendIdle
    /\ table \in Tables
    /\ nullsLow \in BOOLEAN
    /\ views = [v \in ViewIds |-> IF v = "a" THEN NewQuerySet(NoCondition, NONE) ELSE NoView]
    /\ ret = Ret("init", "a", << >>, 0, "")
    /\ closed = FALSE

\* where no view is ever sorted the engine's ordering of NULL has no effect
InitNoSort == Init /\ nullsLow

\* documents without birth_year, where nothing depends on the field values
InitNoYears == InitNoSort /\ \A i \in DOMAIN table : table[i].birth_year = NULL

(* ---------------- QuerySet operations ---------------- *)

\* the error connection.execute raises on a closed connection
ExecError == "ResourceClosedError"

\* a scope that is left open when the body raises
M_transaction(raised) ==
    << "begin", "execute" >> \o (IF raised THEN << >> ELSE << "commit" >>)

\* "with self.backend.transaction(): connection.execute(...)": __enter__
\* begins, the body executes one statement, __exit__ rolls back when the body
\* raised and commits otherwise
transaction(raised) ==
    << "begin", "execute" >> \o (IF raised THEN << "rollback" >> ELSE << "commit" >>)

\* the backend log of a call that ran a statement (ran) which raised (raised)
Scope(ran, raised) == IF ran THEN transaction(raised) ELSE << >>

\* get_objects once the statement has returned its rows: unpack, copy for pop
materialize(q) ==
    LET rows == ExecSelect(q, table, nullsLow)
        objs == unpack_all(rows, FlatKeymap)
    IN [q EXCEPT !.objects = Some(objs), !.pop_objects = Some(objs),
                 !.nmat = @ + 1, !.npop = 0]

\* get_objects that takes a failed statement for an empty result
M_get_objects(q) ==
    IF closed
    THEN [q EXCEPT !.objects = Some(<< >>), !.pop_objects = Some(<< >>)]
    ELSE materialize(q)

\* what a call returns when its statement raised: the engine's error, after
\* the rollback of __exit__
Raise(op, v) == [Ret(op, v, << >>, 0, ExecError) EXCEPT !.log = transaction(TRUE)]

\* the call on q0 that left q executed the unpacking query
Ran(q0, q) == q.nmat # q0.nmat \/ q.objects = NONE

\* QuerySet.get_objects without include; when execute raises, the error
\* leaves the method before anything is assigned
get_objects(q) == IF closed THEN q ELSE materialize(q)

\* a read that queries again although results are cached
M_EnsureObjects(q) == get_objects(q)

\* "if self.objects is None: self.get_objects()"
EnsureObjects(q) == IF q.objects = NONE THEN get_objects(q) ELSE q

\* QuerySet.limit
limit(q, n) == [q EXCEPT !.limit = Some(n), !.nmat = 0]

\* QuerySet.offset
offset(q, n) == [q EXCEPT !.offset = Some(n), !.nmat = 0]

Limit(v, n) ==
    /\ v \in Alive
    /\ views' = [views EXCEPT ![v] = limit(@, n)]
    /\ ret' = Ret("limit", v, << >>, n, "")
    /\ UNCHANGED << table, nullsLow, closed, unpackVars, backendVars >>

Offset(v, n) ==
    /\ v \in Alive
    /\ views' = [views EXCEPT ![v] = offset(@, n)]
    /\ ret' = Ret("offset", v, << >>, n, "")
    /\ UNCHANGED << table, nullsLow, closed, unpackVars, backendVars >>

\* the fields the resolver knows as columns (Backend.get_column_for_key)
Columns == {"pk", "birth_year"}

RECURSIVE SortColumns(_)
\* the loop of QuerySet.sort over resolvable keys
SortColumns(keys) ==
    IF keys = << >> THEN << >>
    ELSE << [column |-> Head(keys).key,
             dir |-> IF Head(keys).direction > 0 THEN "asc" ELSE "desc"] >>
         \o SortColumns(Tail(keys))

\* sort that keeps the materialized results
M_sort(q, keys) == [q EXCEPT !.order_bys = Some(SortColumns(keys)), !.nmat = 0]

\* QuerySet.sort
sort(q, keys) == [q EXCEPT !.order_bys = Some(SortColumns(keys)),
                           !.objects = NONE, !.nmat = 0]

SortKeys == {<< [key |-> f, direction |-> d] >> : f \in {"birth_year", "missing"}, d \in {-1, 1}}
\* key sequences of two (field, direction) pairs
SortKeyPairs == {k1 \o k2 : k1 \in SortKeys, k2 \in SortKeys}

\* a sort that stores the order-bys resolved so far and resets the results
\* before it raises
M_sort_raise(q, keys) ==
    [q EXCEPT !.order_bys = Some(SortColumns(IF keys[1].key \in Columns
                                             THEN SubSeq(keys, 1, 1) ELSE << >>)),
              !.objects = NONE]

\* the view when the loop of sort raises AttributeError: order_bys is a local
\* list until the loop is done, so nothing was assigned
sort_raise(q, keys) == q

Sort(v, keys) ==
    /\ v \in Alive
    /\ IF \E i \in DOMAIN keys : keys[i].key \notin Columns
       THEN /\ ret' = Ret("sort", v, keys, 0, "AttributeError")
            /\ views' = [views EXCEPT ![v] = sort_raise(@, keys)]
       ELSE /\ views' = [views EXCEPT ![v] = sort(@, keys)]
            /\ ret' = Ret("sort", v, keys, 0, "")
    /\ UNCHANGED << table, nullsLow, closed, unpackVars, backendVars >>

\* QuerySet.__iter__ run to exhaustion
Iterate(v) ==
    /\ v \in Alive
    /\ LET q == EnsureObjects(views[v])
       IN /\ q.nmat <= MaxExec
          /\ views' = [views EXCEPT ![v] = q]
          /\ ret' = IF q.objects = NONE THEN Raise("iter", v)
                    ELSE [Ret("iter", v, DeserializeAll(q.objects[1]), 0, "")
                             EXCEPT !.log = Scope(Ran(views[v], q), FALSE)]
    /\ UNCHANGED << table, nullsLow, closed, unpackVars, backendVars >>

\* QuerySet.as_list
AsList(v) ==
    /\ v \in Alive
    /\ LET q == EnsureObjects(views[v])
       IN /\ q.nmat <= MaxExec
          /\ views' = [views EXCEPT ![v] = q]
          /\ ret' = IF q.objects = NONE THEN Raise("as_list", v)
                    ELSE [Ret("as_list", v, DeserializeAll(q.objects[1]), 0, "")
                             EXCEPT !.log = Scope(Ran(views[v], q), FALSE)]
    /\ UNCHANGED << table, nullsLow, closed, unpackVars, backendVars >>

\* QuerySet.__getitem__ with an integer key (a negative key counts from the end)
GetItem(v, i) ==
    /\ v \in Alive
    /\ LET q == EnsureObjects(views[v])
           n == Len(q.objects[1])
           pos == IF i < 0 THEN n + i + 1 ELSE i + 1
       IN /\ q.nmat <= MaxExec
          /\ views' = [views EXCEPT ![v] = q]
          /\ ret' = IF q.objects = NONE THEN Raise("getitem", v)
                    ELSE [IF pos \in 1 .. n
                          THEN Ret("getitem", v, << Deserialize(q.objects[1][pos]) >>, i, "")
                          ELSE Ret("getitem", v, << >>, i, "IndexError")
                             EXCEPT !.log = Scope(Ran(views[v], q), FALSE)]
    /\ UNCHANGED << table, nullsLow, closed, unpackVars, backendVars >>

\* the generator of __iter__ once its first next() has run: the list bound by
\* "for obj in self.objects" and the number of objects yielded so far; a
\* generator that an exception has left walks the empty list
Generator(items, pos) == [items |-> items, pos |-> pos]

\* QuerySet.next: the first call creates the generator with iter(self), every
\* call advances the generator that self._it refers to
NextOf(v) ==
    /\ v \in Alive
    /\ LET creates == views[v].it = NONE
           owner == IF creates THEN v ELSE views[v].it[1]
           q == IF creates THEN EnsureObjects(views[v]) ELSE views[owner]
           g == IF ~creates THEN q.gen[1]
                ELSE IF q.objects = NONE THEN Generator(<< >>, 0)
                ELSE Generator(q.objects[1], 0)
           more == g.pos < Len(g.items)
           g1 == IF more THEN Generator(g.items, g.pos + 1) ELSE g
       IN /\ q.nmat <= MaxExec
          /\ views' = [views EXCEPT ![owner] =
                          [q EXCEPT !.it = Some(owner), !.gen = Some(g1)]]
          /\ ret' = IF creates /\ q.objects = NONE THEN Raise("next", v)
                    ELSE [IF more
                          THEN Ret("next", v, << Deserialize(g.items[g.pos + 1]) >>, 0, "")
                          ELSE Ret("next", v, << >>, 0, "StopIteration")
                             EXCEPT !.log = Scope(creates /\ Ran(views[v], q), FALSE)]
    /\ UNCHANGED << table, nullsLow, closed, unpackVars, backendVars >>

MaxPops == MaxRows + 2

\* a pop that removes the first element
M_PopLast(p) == [val |-> p[1], rest |-> Tail(p)]

\* list.pop() on the copy kept for pop: remove and return the last element
PopLast(p) == [val |-> p[Len(p)], rest |-> SubSeq(p, 1, Len(p) - 1)]

\* QuerySet.pop; the index argument is not used
Pop(v, i) ==
    /\ v \in Alive
    /\ LET q == EnsureObjects(views[v])
           p == q.pop_objects[1]
       IN /\ q.nmat <= MaxExec
          /\ q.npop < MaxPops
          /\ IF q.objects = NONE
             THEN /\ views' = [views EXCEPT ![v] = q]
                  /\ ret' = Raise("pop", v)
             ELSE IF p # << >>
             THEN /\ views' = [views EXCEPT ![v] =
                        [q EXCEPT !.pop_objects = Some(PopLast(p).rest),
                                  !.npop = @ + 1]]
                  /\ ret' = [Ret("pop", v, << Deserialize(PopLast(p).val) >>, 0, "")
                                EXCEPT !.log = Scope(Ran(views[v], q), FALSE)]
             ELSE /\ views' = [views EXCEPT ![v] = [q EXCEPT !.npop = @ + 1]]
                  /\ ret' = [Ret("pop", v, << >>, 0, "IndexError")
                                EXCEPT !.log = Scope(Ran(views[v], q), FALSE)]
    /\ UNCHANGED << table, nullsLow, closed, unpackVars, backendVars >>

\* QuerySet.__len__: the count query, cached; when execute raises, count is
\* not assigned
len(q) ==
    IF q.count = NONE /\ ~closed
    THEN [q EXCEPT !.count = Some(Len(ExecSelect(q, table, nullsLow)))]
    ELSE q

LenOf(v) ==
    /\ v \in Alive
    /\ LET q == len(views[v])
       IN /\ views' = [views EXCEPT ![v] = q]
          /\ ret' = IF q.count = NONE THEN Raise("len", v)
                    ELSE [Ret("len", v, << >>, q.count[1], "")
                             EXCEPT !.log = Scope(views[v].count = NONE, FALSE)]
    /\ UNCHANGED << table, nullsLow, closed, unpackVars, backendVars >>

\* distinct keys read from the materialized results when there are any
M_distinct_pks(q) ==
    IF q.objects # NONE THEN {q.objects[1][i].leaf["pk"] : i \in DOMAIN q.objects[1]}
    ELSE {r.pk : r \in Range(ExecSelect(q, table, nullsLow))}

\* QuerySet.distinct_pks
distinct_pks(q) == {r.pk : r \in Range(ExecSelect(q, table, nullsLow))}

DistinctPks(v) ==
    /\ v \in Alive
    /\ ret' = IF closed THEN Raise("distinct_pks", v)
              ELSE [Ret("distinct_pks", v, << >>, 0, "")
                       EXCEPT !.pks = distinct_pks(views[v]),
                              !.log = transaction(FALSE)]
    /\ UNCHANGED << table, nullsLow, closed, views, unpackVars, backendVars >>

\* the attribute keys of the view: QuerySet.__init__ never assigns it and the
\* base view described for the SQL backend holds only the backend and the class
BaseKeys == NONE

\* the lists a view is compared with: what the table holds, a prefix, nothing
OtherLists ==
    {DeserializeAll(unpack_all(Take(table, n), FlatKeymap)) : n \in 0 .. Len(table)}

\* QuerySet.__eq__ with a list: len(self.keys) is evaluated first
EqList(v, other) ==
    /\ v \in Alive
    /\ IF BaseKeys = NONE
       THEN /\ ret' = Ret("eq", v, other, 0, "AttributeError")
            /\ UNCHANGED views
       ELSE IF Len(other) # Len(BaseKeys[1])
       THEN /\ ret' = Ret("eq", v, other, 0, "")
            /\ UNCHANGED views
       ELSE LET q == EnsureObjects(views[v])
            IN /\ q.nmat <= MaxExec
               /\ views' = [views EXCEPT ![v] = q]
               /\ ret' = IF q.objects = NONE THEN Raise("eq", v)
                         ELSE [Ret("eq", v, other,
                                   IF other = DeserializeAll(q.objects[1]) THEN 1 ELSE 0, "")
                                  EXCEPT !.log = Scope(Ran(views[v], q), FALSE)]
    /\ UNCHANGED << table, nullsLow, closed, unpackVars, backendVars >>

\* what is tested with "in": one object, or a list of objects, by primary key
Candidates ==
    {[kind |-> "object", pks |-> << p >>] : p \in 1 .. MaxRows}
    \cup {[kind |-> "list", pks |-> ps] :
            ps \in {<< >>} \cup {<< p, r >> : p \in 1 .. MaxRows, r \in 1 .. MaxRows}}

\* QuerySet.__contains__: the keys of all candidates are among distinct_pks()
contains(q, obj_list) == \A i \in DOMAIN obj_list : obj_list[i] \in distinct_pks(q)

\* obj in v
Contains(v, obj) ==
    /\ v \in Alive
    /\ ret' = IF closed THEN Raise("contains", v)
              ELSE [Ret("contains", v, obj.pks,
                        IF contains(views[v], obj.pks) THEN 1 ELSE 0, "")
                       EXCEPT !.log = transaction(FALSE)]
    /\ UNCHANGED << table, nullsLow, closed, views, unpackVars, backendVars >>

\* backend.save(Actor(...)) and backend.commit(): a new row with the next
\* primary key
Insert(year) ==
    /\ Len(table) < MaxRows
    /\ table' = Append(table, [pk |-> Len(table) + 1, birth_year |-> year])
    /\ ret' = Ret("insert", "a", << >>, Len(table) + 1, "")
    /\ UNCHANGED << nullsLow, closed, views, unpackVars, backendVars >>

\* the columns of get_select(fields): a select override is returned as it is,
\* with the columns of the whole table it was built with
select_columns(q, fields) == IF q.select # NONE THEN Columns ELSE fields

\* the error of the engine for "pk IN (subquery)" when the subquery returns
\* more than one column
SubqueryError == "OperationalError"

RECURSIVE Without(_, _)
\* DELETE FROM table WHERE pk IN pks
Without(rows, pks) ==
    IF rows = << >> THEN << >>
    ELSE IF Head(rows).pk \in pks THEN Without(Tail(rows), pks)
         ELSE << Head(rows) >> \o Without(Tail(rows), pks)

\* the error the statement of QuerySet.delete raises, "" when it runs
delete_error(q) ==
    IF closed THEN ExecError
    ELSE IF Cardinality(select_columns(q, {"pk"})) # 1 THEN SubqueryError
    ELSE ""

\* QuerySet.delete: the table after the statement, inside its scope
delete(q, tbl) ==
    IF delete_error(q) # "" THEN tbl
    ELSE Without(tbl, {r.pk : r \in Range(ExecSelect(q, tbl, nullsLow))})

Delete(v) ==
    /\ v \in Alive
    /\ table' = delete(views[v], table)
    /\ ret' = [Ret("delete", v, << >>, 0, delete_error(views[v]))
                 EXCEPT !.log = transaction(delete_error(views[v]) # "")]
    /\ UNCHANGED << nullsLow, closed, views, unpackVars, backendVars >>

\* copy.copy(self) followed by the assignments of the slice branch of
\* QuerySet.__getitem__; the shallow copy keeps the references _it and
\* pop_objects of the original, the generator itself stays where it is
slice_copy(q, start, stop) ==
    LET c == IF start # 0 THEN offset(q, start) ELSE q
    IN [limit(c, stop - start) EXCEPT !.objects = NONE, !.count = NONE,
                                     !.nmat = 0, !.npop = 0, !.gen = NONE]

\* a slice that adjusts the view itself and returns it
M_slice(q, start, stop) ==
    [self |-> slice_copy(q, start, stop), qs |-> slice_copy(q, start, stop)]

\* the slice branch from copy.copy on: what becomes of the view itself, and
\* the copy that is returned
slice(q, start, stop) == [self |-> q, qs |-> slice_copy(q, start, stop)]

SliceArgs == {NONE} \cup {Some(n) : n \in -1 .. MaxRows}
StepArgs == {NONE, Some(1), Some(2), Some(-1)}

\* key.step as the call record shows it: 0 stands for None
StepOf(step) == IF step = NONE THEN 0 ELSE step[1]

\* a step test that lets every step but 1 pass
M_RejectsStep(step) == step = Some(1)

\* "if step != None: raise IndexError"
RejectsStep(step) == step # NONE

\* QuerySet.__getitem__ with a slice key; the caller binds the new view to t
Slice(v, t, start, stop, step) ==
    /\ v \in Alive
    /\ UNCHANGED << table, nullsLow, closed, unpackVars, backendVars >>
    /\ IF RejectsStep(step)
       THEN /\ ret' = Ret("slice", v, << >>, StepOf(step), "IndexError")
            /\ UNCHANGED views
       ELSE LET needLen == \/ stop = NONE
                           \/ (start # NONE /\ start[1] < 0)
                           \/ (stop # NONE /\ stop[1] < 0)
                q == IF needLen THEN len(views[v]) ELSE views[v]
                s0 == IF start = NONE THEN 0 ELSE start[1]
                t0 == IF stop = NONE THEN q.count[1] ELSE stop[1]
                s1 == IF s0 < 0 THEN q.count[1] + s0 ELSE s0
                t1 == IF t0 < 0 THEN q.count[1] + t0 ELSE t0
            IN IF needLen /\ q.count = NONE
               THEN /\ ret' = Raise("slice", v)
                    /\ UNCHANGED views
               ELSE /\ 0 <= s1 /\ s1 <= t1
                    /\ views' = [[views EXCEPT ![v] = slice(q, s1, t1).self]
                                     EXCEPT ![t] = slice(q, s1, t1).qs]
                    /\ ret' = [Ret("slice", v, << >>, StepOf(step), "")
                                  EXCEPT !.log = Scope(needLen /\ views[v].count = NONE,
                                                       FALSE)]

\* an intersect that keeps only the select of the other view
M_intersect(q, qs) == NewQuerySet(NoCondition, Some(get_select(qs)))

\* QuerySet.intersect: a new view whose select is the INTERSECT of both selects
intersect(q, qs) == NewQuerySet(NoCondition, Some(get_select(q) \o get_select(qs)))

\* QuerySet.filter: backend.filter builds a plan for the condition, then intersect
filter(q, condition) == intersect(q, NewQuerySet(condition, NONE))

\* t = v.filter(condition)
Filter(v, t, condition) ==
    /\ v \in Alive
    /\ Len(get_select(views[v])) < MaxLeaves
    /\ views' = [views EXCEPT ![t] = filter(views[v], condition)]
    /\ ret' = Ret("filter", v, << >>, 0, "")
    /\ UNCHANGED << table, nullsLow, closed, unpackVars, backendVars >>

\* t = v.intersect(w)
Intersect(v, w, t) ==
    /\ v \in Alive /\ w \in Alive
    /\ Len(get_select(views[v])) + Len(get_select(views[w])) <= MaxLeaves
    /\ views' = [views EXCEPT ![t] = intersect(views[v], views[w])]
    /\ ret' = Ret("intersect", v, << >>, 0, "")
    /\ UNCHANGED << table, nullsLow, closed, unpackVars, backendVars >>

\* t = backend.filter(cls, query): a fresh view
BackendFilter(t, condition) ==
    /\ views' = [views EXCEPT ![t] = NewQuerySet(condition, NONE)]
    /\ ret' = Ret("backend_filter", t, << >>, 0, "")
    /\ UNCHANGED << table, nullsLow, closed, unpackVars, backendVars >>

\* the connection is closed, or opened again
SetClosed(c) ==
    /\ closed # c
    /\ closed' = c
    /\ ret' = Ret(IF c THEN "close" ELSE "open", "a", << >>, 0, "")
    /\ UNCHANGED << table, nullsLow, views, unpackVars, backendVars >>

\* the calls on one view a = backend.filter(cls, {})
Next ==
    \/ \E n \in 1 .. MaxArg : Limit("a", n)
    \/ \E n \in 1 .. MaxArg : Offset("a", n)
    \/ \E keys \in SortKeys : Sort("a", keys)
    \/ Iterate("a")
    \/ AsList("a")
    \/ \E i \in 0 .. MaxRows - 1 : GetItem("a", i)
    \/ \E i \in {0, 1} : Pop("a", i)
    \/ LenOf("a")

Spec == Init /\ [][Next]_vars

\* the reads of one view between changes of its limit
NextRead ==
    \/ \E n \in 1 .. MaxArg : Limit("a", n)
    \/ \E n \in 1 .. MaxArg : Offset("a", n)
    \/ Iterate("a")
    \/ AsList("a")
    \/ \E i \in 0 .. MaxRows - 1 : GetItem("a", i)
    \/ \E i \in {0, 1} : Pop("a", i)

SpecRead == InitNoSort /\ [][NextRead]_vars

\* sorting one view and reading it by iteration and by index
NextSort ==
    \/ \E n \in 1 .. MaxArg : Limit("a", n)
    \/ \E keys \in SortKeys : Sort("a", keys)
    \/ Iterate("a")
    \/ \E i \in 0 .. MaxRows - 1 : GetItem("a", i)

SpecSort == Init /\ [][NextSort]_vars

\* the calls that execute a statement, on a connection that may be closed
NextTxn ==
    \/ \E c \in BOOLEAN : SetClosed(c)
    \/ \E n \in 1 .. MaxArg : Limit("a", n)
    \/ Iterate("a")
    \/ \E i \in {0, 1} : Pop("a", i)
    \/ LenOf("a")
    \/ DistinctPks("a")
    \/ Delete("a")

SpecTxn == InitNoYears /\ [][NextTxn]_vars

\* sorting one view by one or two keys, known or not
NextSortKeys ==
    \/ \E keys \in SortKeys \cup SortKeyPairs : Sort("a", keys)
    \/ Iterate("a")

SpecSortKeys == InitNoYears /\ [][NextSortKeys]_vars

\* the calls around b = a[start:stop]
NextSlice ==
    \/ \E n \in 1 .. MaxArg : Limit("a", n)
    \/ \E n \in 1 .. MaxArg : Offset("a", n)
    \/ \E start \in SliceArgs, stop \in SliceArgs, step \in StepArgs :
         Slice("a", "b", start, stop, step)
    \/ Iterate("b")
    \/ LenOf("b")

SpecSlice == InitNoSort /\ [][NextSlice]_vars

\* next() and pop() on a view and on a slice of it
NextShare ==
    \/ \E start \in SliceArgs, stop \in SliceArgs : Slice("a", "b", start, stop, NONE)
    \/ \E v \in ViewIds : NextOf(v)
    \/ \E v \in ViewIds : Pop(v, 0)

SpecShare == InitNoYears /\ [][NextShare]_vars

\* "del t": the caller drops its reference to a view
Release(t) ==
    /\ t \in Alive
    /\ views' = [views EXCEPT ![t] = NoView]
    /\ ret' = Ret("del", t, << >>, 0, "")
    /\ UNCHANGED << table, nullsLow, closed, unpackVars, backendVars >>

\* b = a[start:stop:step] on a view that was sorted, limited and read; the
\* caller drops the slice before it goes on with a
NextCopy ==
    \/ ~views["b"].alive /\ \E n \in 1 .. MaxArg : Limit("a", n)
    \/ ~views["b"].alive /\ \E keys \in SortKeys : Sort("a", keys)
    \/ ~views["b"].alive /\ Iterate("a")
    \/ \E start \in SliceArgs, stop \in SliceArgs, step \in StepArgs :
         Slice("a", "b", start, stop, step)
    \/ Release("b")

SpecCopy == InitNoYears /\ [][NextCopy]_vars

\* the calls around b = a.filter(condition) and b = a.intersect(b)
NextFilter ==
    \/ \E n \in 1 .. MaxArg : Limit("a", n)
    \/ \E c \in Conditions : BackendFilter("b", c)
    \/ \E c \in Conditions : Filter("a", "b", c)
    \/ Intersect("a", "b", "b")
    \/ LenOf("b")
    \/ DistinctPks("b")

SpecFilter == InitNoSort /\ [][NextFilter]_vars

\* delete() on a view, on a slice of it and on a chained filter of it
NextDelete ==
    \/ \E n \in 1 .. MaxArg : Limit("a", n)
    \/ \E n \in 1 .. MaxArg : Offset("a", n)
    \/ \E start \in SliceArgs, stop \in SliceArgs : Slice("a", "b", start, stop, NONE)
    \/ \E c \in Conditions : Filter("a", "b", c)
    \/ \E c \in Conditions : BackendFilter("b", c)
    \/ \E v \in ViewIds : Delete(v)

SpecDelete == InitNoSort /\ [][NextDelete]_vars

\* a view built by a chained filter, then shaped and read
NextOverride ==
    \/ \E c \in Conditions : Filter("a", "b", c)
    \/ \E n \in 0 .. MaxArg : Limit("b", n)
    \/ \E n \in 0 .. MaxArg : Offset("b", n)
    \/ \E k \in SortKeys : Sort("b", k)
    \/ Iterate("b")
    \/ LenOf("b")
    \/ DistinctPks("b")

SpecOverride == InitNoYears /\ [][NextOverride]_vars

\* a view compared with plain lists
NextEq ==
    \/ \E n \in 0 .. MaxArg : Limit("a", n)
    \/ \E n \in 0 .. MaxArg : Offset("a", n)
    \/ Iterate("a")
    \/ \E other \in OtherLists : EqList("a", other)

SpecEq == InitNoSort /\ [][NextEq]_vars

\* objects are inserted while a filtered view is read and tested for members
NextMember ==
    \/ \E c \in Conditions : BackendFilter("a", c)
    \/ \E n \in 0 .. MaxArg : Limit("a", n)
    \/ Iterate("a")
    \/ \E y \in Years \cup {NULL} : Insert(y)
    \/ DistinctPks("a")
    \/ \E obj \in Candidates : Contains("a", obj)

SpecMember == InitNoSort /\ [][NextMember]_vars

(* ---------------- the class registry of the backend ---------------- *)

\* document classes: Sub is a subclass of Doc
Classes == {"Doc", "Sub"}

\* issubclass(cls, old_cls)
IsSubclass(cls, old_cls) == cls = old_cls \/ (cls = "Sub" /\ old_cls = "Doc")

\* cls.__name__.lower(), the collection of a class without Meta.collection
DefaultName(cls) ==
    IF cls = "Doc" THEN "doc" ELSE "sub"

\* the values of the parameter "parameters" of register: none, or a dict
\* with a collection name
Parameters == {NONE, Some("doc")}

CollectionNameOf(cls, parameters) ==
    IF parameters # NONE THEN parameters[1] ELSE DefaultName(cls)

\* d[k] = v and del d[k] on a dict
Put(d, k, v) == [x \in DOMAIN d \cup {k} |-> IF x = k THEN v ELSE d[x]]
Del(d, k) == [x \in DOMAIN d \ {k} |-> d[x]]

\* the registry with the outcome of a call
Registry(cl, co, de, val, err) ==
    [classes |-> cl, collections |-> co, deprecated_classes |-> de,
     val |-> val, err |-> err]

\* the inner function register_class of register
register_class(collection_name, cls, val) ==
    Registry(Put(classes, cls, collection_name), Put(collections, collection_name, cls),
             deprecated_classes, val, "")

\* a register that replaces the class of a taken collection by any other class
M_register(cls, parameters, overwrite) ==
    LET collection_name == CollectionNameOf(cls, parameters)
    IN IF collection_name \in DOMAIN collections
          /\ collections[collection_name] \in DOMAIN classes
          /\ collections[collection_name] # cls
       THEN LET old_cls == collections[collection_name]
            IN Registry(Put(Del(classes, old_cls), cls, collection_name),
                        Put(collections, collection_name, cls),
                        Put(deprecated_classes, old_cls, classes[old_cls]), TRUE, "")
       ELSE register_class(collection_name, cls, TRUE)

\* Backend.register
register(cls, parameters, overwrite) ==
    LET collection_name == CollectionNameOf(cls, parameters)
        same == Registry(classes, collections, deprecated_classes, FALSE, "")
    IN IF cls \in DOMAIN deprecated_classes /\ ~overwrite THEN same
       ELSE IF collection_name \in DOMAIN collections
       THEN LET old_cls == collections[collection_name]
            IN IF (IsSubclass(cls, old_cls) /\ cls # old_cls) \/ overwrite
               THEN IF old_cls \notin DOMAIN classes
                    THEN [same EXCEPT !.err = "KeyError"]
                    ELSE Registry(Put(Del(classes, old_cls), cls, collection_name),
                                  Put(collections, collection_name, cls),
                                  Put(deprecated_classes, old_cls, classes[old_cls]),
                                  TRUE, "")
               ELSE same
       ELSE register_class(collection_name, cls, TRUE)

Register(cls, parameters, overwrite) ==
    /\ LET r == register(cls, parameters, overwrite)
       IN /\ classes' = r.classes
          /\ collections' = r.collections
          /\ deprecated_classes' = r.deprecated_classes
          /\ call' = Call("register",
                          [cls |-> cls, parameters |-> parameters, overwrite |-> overwrite],
                          r.val, r.err)
    /\ UNCHANGED << viewVars, unpackVars >>

\* Backend.unregister
unregister(cls) ==
    IF cls \in DOMAIN classes
    THEN IF classes[cls] \notin DOMAIN collections
         THEN Registry(classes, collections, deprecated_classes, FALSE, "KeyError")
         ELSE Registry(Del(classes, cls), Del(collections, classes[cls]),
                       deprecated_classes, FALSE, "")
    ELSE Registry(classes, collections, deprecated_classes, FALSE, "")

Unregister(cls) ==
    /\ LET r == unregister(cls)
       IN /\ classes' = r.classes
          /\ collections' = r.collections
          /\ deprecated_classes' = r.deprecated_classes
          /\ call' = Call("unregister", cls, << >>, r.err)
    /\ UNCHANGED << viewVars, unpackVars >>

\* every collection name register can be given
CollectionNames == {CollectionNameOf(c, p) : c \in Classes, p \in Parameters}

\* Backend.create_instance with empty attributes: the class of the instance
\* made, or the error raised
create_instance(collection_or_class) ==
    IF collection_or_class \in DOMAIN classes \/ collection_or_class \in DOMAIN collections
    THEN LET cls == IF collection_or_class \in DOMAIN classes THEN collection_or_class
                    ELSE collections[collection_or_class]
         IN IF cls \in DOMAIN classes THEN [cls |-> cls, err |-> ""]
            ELSE [cls |-> "", err |-> "KeyError"]
    ELSE [cls |-> "", err |-> "AttributeError"]

CreateInstance(collection_or_class) ==
    /\ LET r == create_instance(collection_or_class)
       IN call' = Call("create_instance", collection_or_class, r.cls, r.err)
    /\ UNCHANGED << viewVars, unpackVars, classes, collections, deprecated_classes >>

NextRegistry ==
    \/ \E cls \in Classes, parameters \in Parameters, overwrite \in BOOLEAN :
          Register(cls, parameters, overwrite)
    \/ \E cls \in Classes : Unregister(cls)
    \/ \E x \in Classes \cup CollectionNames : CreateInstance(x)

\* a backend with an empty table and no class registered
InitRegistry == InitNoSort /\ table = << >>

SpecRegistry == InitRegistry /\ [][NextRegistry]_vars

(* ---------------- Backend.serialize ---------------- *)

\* nesting depth of the values that are serialized
MaxNest == 2

\* a value is [t, v] with v a sequence of values: a scalar is named by t and
\* has no parts; a list holds its elements; a dict holds its entries in
\* iteration order, an entry being named by its key and holding the value
Val(t, v) == [t |-> t, v |-> v]
Scalar(name) == Val(name, << >>)
Entry(key, value) == Val(key, << value >>)

\* the integer 1, the complex number 1+2j, a value the encoder refuses
Scalars == {Scalar("int 1"), Scalar("complex 1+2j"), Scalar("refused")}

RECURSIVE Values(_)
Values(n) ==
    IF n = 0 THEN Scalars
    ELSE LET V == Values(n - 1)
         IN V \cup {Val("dict", << >>)}
              \cup {Val("dict", << Entry(k, x) >>) : k \in {"a", "b"}, x \in V}
              \cup {Val("dict", << Entry("a", x), Entry("b", y) >>) : x \in V, y \in V}
              \cup {Val("list", l) : l \in UNION {[1 .. k -> V] : k \in 0 .. 2}}

\* ComplexEncoder.encode followed by an encoder that raises DoNotSerialize for
\* the values it refuses
Encode(obj) ==
    IF obj.t = "refused" THEN [err |-> "DoNotSerialize", obj |-> obj]
    ELSE IF obj.t = "complex 1+2j"
    THEN [err |-> "", obj |-> Val("dict", << Entry("_type", Scalar("str complex")),
                                            Entry("r", Scalar("float 1")),
                                            Entry("i", Scalar("float 2")) >>)]
    ELSE [err |-> "", obj |-> obj]

Raised(err) == [err |-> err, val |-> Scalar("none")]
Returned(val) == [err |-> "", val |-> val]

RECURSIVE KeptEntries(_, _)
\* the entries of the output dict: those whose value did not raise DoNotSerialize
KeptEntries(entries, r) ==
    IF entries = << >> THEN << >>
    ELSE (IF Head(r).err = "" THEN << Entry(Head(entries).t, Head(r).val) >> ELSE << >>)
         \o KeptEntries(Tail(entries), Tail(r))

RECURSIVE serialize(_)
\* Backend.serialize: the value returned, or the exception that leaves the call
serialize(obj) ==
    LET e == Encode(obj)
        o == e.obj
    IN IF e.err # "" THEN Raised(e.err)
       ELSE IF o.t = "dict"
       THEN LET r == [k \in DOMAIN o.v |-> serialize(o.v[k].v[1])]
                bad == {k \in DOMAIN o.v : r[k].err \notin {"", "DoNotSerialize"}}
            IN IF bad # {} THEN Raised(r[CHOOSE k \in bad : \A x \in bad : k <= x].err)
               ELSE Returned(Val("dict", KeptEntries(o.v, r)))
       ELSE IF o.t = "list"
       THEN LET r == [i \in DOMAIN o.v |-> serialize(o.v[i])]
            IN IF \E i \in DOMAIN o.v : r[i].err # ""
               THEN \* "except DoNotSerialize: pass" leaves output_obj unassigned
                    Raised("UnboundLocalError")
               ELSE Returned(Val("list", [i \in DOMAIN o.v |-> r[i].val]))
       ELSE Returned(o)

\* serialize applied to the value that was handed in
Serialize ==
    /\ call.op = "value"
    /\ LET r == serialize(call.arg)
       IN call' = Call("serialize", call.arg, r.val, r.err)
    /\ UNCHANGED << viewVars, unpackVars, classes, collections, deprecated_classes >>

\* a backend and a value to serialize
InitSerialize ==
    /\ UnpackIdle
    /\ table = << >> /\ nullsLow = TRUE /\ closed = FALSE
    /\ views = [v \in ViewIds |-> NoView]
    /\ ret = Ret("init", "a", << >>, 0, "")
    /\ classes = << >> /\ collections = << >> /\ deprecated_classes = << >>
    /\ \E obj \in Values(MaxNest) : call = Call("value", obj, Scalar("none"), "")

SpecSerialize == InitSerialize /\ [][Serialize]_vars

(* ---------------- the join planner of get_objects ---------------- *)

\* names of relationship keys and of foreign-key columns
Names == {"a", "b", "a_b"}

\* params['fields'] of a joined entity: absent, or the requested fields
FieldChoices == {NONE, Some(<< "name" >>)}

\* the indexed columns of every related collection (Backend.get_table_columns)
RelatedColumns == << "pk", "name" >>

\* one entry of a 'joins' dict: the key, whether the relation has a
\* relationship table, the foreign-key column, the fields and the nested joins
JoinOf(key, m2m, column, fields, joins) ==
    [key |-> key, m2m |-> m2m, column |-> column, fields |-> fields, joins |-> joins]

LeafJoins ==
    {JoinOf(k, TRUE, "", f, << >>) : k \in Names, f \in FieldChoices}
    \cup {JoinOf(k, FALSE, c, f, << >>) : k \in Names, c \in Names, f \in FieldChoices}

NestedJoins == LeafJoins \cup {[j EXCEPT !.joins = << sub >>] : j \in LeafJoins, sub \in LeafJoins}

\* the path element under which the fields of a joined entity are filed
PathElement(j) == IF j.m2m THEN j.key ELSE j.column

\* what Backend.get_include_joins hands to the planner: the fields of the
\* root and the joins, a dict with distinct keys; two relations of one
\* entity differ in their keys and columns
JoinLists ==
    {<< >>} \cup {<< j >> : j \in NestedJoins}
    \cup {jl \in {<< j, l >> : j \in NestedJoins, l \in LeafJoins} :
            /\ jl[1].key # jl[2].key
            /\ PathElement(jl[1]) # PathElement(jl[2])
            /\ jl[1].key # PathElement(jl[2]) /\ jl[2].key # PathElement(jl[1])}

\* the columns of the CTE: those of the base table, the foreign-key columns
\* the joins refer to among them
RECURSIVE ForeignKeyColumns(_)
ForeignKeyColumns(joins) ==
    IF joins = << >> THEN << >>
    ELSE (IF Head(joins).m2m \/ \E i \in DOMAIN Tail(joins) :
                 ~Tail(joins)[i].m2m /\ Tail(joins)[i].column = Head(joins).column
          THEN << >> ELSE << Head(joins).column >>)
         \o ForeignKeyColumns(Tail(joins))

CteColumns(joins) == RelatedColumns \o ForeignKeyColumns(joins)

\* "_".join(path)
RECURSIVE JoinPath(_)
JoinPath(path) ==
    IF Len(path) = 1 THEN path[1] ELSE path[1] \o "_" \o JoinPath(Tail(path))

\* the output label of a column of the entity joined at path
LabelOf(path, column_name) == JoinPath(path) \o "_" \o column_name

\* the keymap is held flat: the path of every entry, with the label of a
\* leaf, DictNode for a nested dict and "True" for a marker
DictNode == "{}"

\* the planner's rows, joins and keymap, and the error that stopped it
Plan(rows, joins, km, err) == [rows |-> rows, joins |-> joins, keymap |-> km, err |-> err]

IsPrefix(p, q) == Len(p) < Len(q) /\ SubSeq(q, 1, Len(p)) = p

\* d[field] = label on the dict at path: what hung under the old value is gone
Assign(km, path, field, label) ==
    LET k == Append(path, field)
        kept == {q \in DOMAIN km : ~IsPrefix(k, q)} \cup {k}
    IN [q \in kept |-> IF q = k THEN label ELSE km[q]]

RECURSIVE Descend(_, _, _)
\* the loop of update_keymap over the first n path elements: missing dicts
\* are created; an entry that holds a label cannot be descended into
Descend(km, path, n) ==
    IF n = 0 THEN [keymap |-> km, err |-> ""]
    ELSE LET d == Descend(km, path, n - 1)
             p == SubSeq(path, 1, n)
         IN IF d.err # "" THEN d
            ELSE IF p \notin DOMAIN d.keymap
            THEN [keymap |-> Put(d.keymap, p, DictNode), err |-> ""]
            ELSE IF d.keymap[p] # DictNode THEN [keymap |-> km, err |-> "TypeError"]
            ELSE d

\* update_keymap(path, field, label)
update_keymap(st, path, field, label) ==
    IF st.err # "" THEN st
    ELSE LET d == Descend(st.keymap, path, Len(path))
         IN IF d.err # "" THEN [st EXCEPT !.err = d.err]
            ELSE [st EXCEPT !.keymap = Assign(d.keymap, path, field, label)]

\* rows.append(column.label(label)); update_keymap(path, column, label)
Project(st, path, column_name) ==
    LET label == LabelOf(path, column_name)
    IN IF st.err # "" THEN st
       ELSE update_keymap([st EXCEPT !.rows = Append(@, label)], path, column_name, label)

RECURSIVE ProjectAll(_, _, _)
ProjectAll(st, path, columns) ==
    IF columns = << >> THEN st
    ELSE ProjectAll(Project(st, path, Head(columns)), path, Tail(columns))

\* the projection of process_fields_and_subkeys: the requested fields with
\* the primary key forced in, or every indexed column
ProjectFields(st, path, fields) ==
    IF fields # NONE /\ fields[1] # << >>
    THEN ProjectAll(IF \E i \in DOMAIN fields[1] : fields[1][i] = "pk" THEN st
                    ELSE Project(st, path, "pk"),
                    path, fields[1])
    ELSE ProjectAll(st, path, RelatedColumns)

RECURSIVE join_table(_, _, _)
RECURSIVE join_tables(_, _, _)
\* join_table: join_many_to_many or join_foreign_key with
\* process_fields_and_subkeys, then the marker of the branch
join_table(st, j, path) ==
    LET sub == Append(path, PathElement(j))
        joined == [st EXCEPT !.joins = @ + (IF j.m2m THEN 2 ELSE 1)]
        done == join_tables(ProjectFields(joined, sub, j.fields), j.joins, sub)
    IN update_keymap(done, Append(path, j.key),
                     IF j.m2m THEN "__many_to_many" ELSE "__foreign_key", "True")

\* "for subkey, subparams in params['joins'].items(): join_table(...)"
join_tables(st, joins, path) ==
    IF joins = << >> \/ st.err # "" THEN st
    ELSE join_tables(join_table(st, Head(joins), path), Tail(joins), path)

RECURSIVE RootFields(_, _)
\* "rows.append(s_cte.c[field]); keymap[field] = field"
RootFields(st, fields) ==
    IF fields = << >> THEN st
    ELSE RootFields([st EXCEPT !.rows = Append(@, Head(fields)),
                               !.keymap = Assign(@, << >>, Head(fields), Head(fields))],
                    Tail(fields))

\* the planning part of get_objects for an include specification
plan(include) ==
    LET st0 == Plan(<< >>, 0, << >>, "")
        root == IF include.fields # NONE /\ include.fields[1] # << >>
                THEN RootFields(st0, (IF \E i \in DOMAIN include.fields[1] :
                                           include.fields[1][i] = "pk"
                                      THEN << >> ELSE << "pk" >>) \o include.fields[1])
                ELSE RootFields(st0, CteColumns(include.joins))
    IN join_tables(root, include.joins, << >>)

\* the planner applied to the include specification that was handed in
PlanJoins ==
    /\ call.op = "include"
    /\ LET r == plan(call.arg)
       IN call' = Call("plan", call.arg, [rows |-> r.rows, joins |-> r.joins, keymap |-> r.keymap], r.err)
    /\ UNCHANGED << viewVars, unpackVars, classes, collections, deprecated_classes >>

\* a view with an include specification
InitPlan ==
    /\ UnpackIdle
    /\ table = << >> /\ nullsLow = TRUE /\ closed = FALSE
    /\ views = [v \in ViewIds |-> NoView]
    /\ ret = Ret("init", "a", << >>, 0, "")
    /\ classes = << >> /\ collections = << >> /\ deprecated_classes = << >>
    /\ \E fields \in FieldChoices, joins \in JoinLists :
          call = Call("include", [fields |-> fields, joins |-> joins], << >>, "")

SpecPlan == InitPlan /\ [][PlanJoins]_vars

(* ---------------- unpacking of joined row-sets ---------------- *)

KmLeaf(label) == [leaves |-> [pk |-> label], branches |-> << >>]
KmBranch(key, m2m, km) == [key |-> key, m2m |-> m2m, km |-> km]
KmNode(label, branches) == [leaves |-> [pk |-> label], branches |-> branches]

\* the keymaps the join planner builds for the include shapes:
\* a is a relation of the root, b a relation of a, c a second relation of the root
KeymapOf(shape) ==
    CASE shape = "flat" -> KmLeaf("pk")
      [] shape = "fk" -> KmNode("pk", << KmBranch("a", FALSE, KmLeaf("a_pk")) >>)
      [] shape = "m2m" -> KmNode("pk", << KmBranch("a", TRUE, KmLeaf("a_pk")) >>)
      [] shape = "fk_m2m" ->
           KmNode("pk", << KmBranch("a", FALSE,
               KmNode("a_pk", << KmBranch("b", TRUE, KmLeaf("a_b_pk")) >>)) >>)
      [] shape = "m2m_m2m" ->
           KmNode("pk", << KmBranch("a", TRUE,
               KmNode("a_pk", << KmBranch("b", TRUE, KmLeaf("a_b_pk")) >>)) >>)
      [] shape = "siblings" ->
           KmNode("pk", << KmBranch("a", TRUE, KmLeaf("a_pk")),
                           KmBranch("c", TRUE, KmLeaf("c_pk")) >>)

Shapes == {"flat", "fk", "m2m", "fk_m2m", "m2m_m2m", "siblings"}

Kids == 1 .. MaxKids
Parents == 1 .. MaxParents
\* the entities a related entity is itself related to, and those of a second
\* relation of the root
Grandkids == 1 .. MaxKids - 1

RECURSIVE SetToSeq(_)
\* a set of integers as the ascending sequence
SetToSeq(S) ==
    IF S = {} THEN << >>
    ELSE LET m == CHOOSE x \in S : \A y \in S : x <= y
         IN << m >> \o SetToSeq(S \ {m})

\* the related keys an outer join pairs a row with: NULL when there is none
Related(S) == IF S = {} THEN << NULL >> ELSE SetToSeq(S)

RECURSIVE Flatten(_)
Flatten(ss) == IF ss = << >> THEN << >> ELSE Head(ss) \o Flatten(Tail(ss))

\* the rows of the outer joins for one root p: one row per combination
JoinRowsOf(i, p) ==
    LET as == Related(i.ra[p])
        cs == Related(i.rc[p])
        bsOf(a) == IF a = NULL THEN << NULL >> ELSE Related(i.rb[a])
    IN Flatten([x \in DOMAIN as |->
         Flatten([y \in DOMAIN bsOf(as[x]) |->
           [z \in DOMAIN cs |->
              [pk |-> p, a_pk |-> as[x], a_b_pk |-> bsOf(as[x])[y], c_pk |-> cs[z]]]])])

\* the row-set the engine returns for the CTE outer-joined with the relations
JoinRows(i) == Flatten([p \in 1 .. i.n |-> JoinRowsOf(i, p)])

\* a relation of the roots 1..n whose related sets are drawn from choices
RelationsOf(n, choices) ==
    {[p \in Parents |-> IF p <= n THEN f[p] ELSE {}] : f \in [1 .. n -> choices]}

NoRelation(dom) == [x \in dom |-> {}]

AtMostOne(S) == {{}} \cup {{x} : x \in S}

\* relational instances: n roots; ra, rc relate roots and rb relates a-entities;
\* a foreign key relates a root to at most one entity
Ras(shape, n) ==
    CASE shape = "flat" -> {NoRelation(Parents)}
      [] shape \in {"fk", "fk_m2m"} -> RelationsOf(n, AtMostOne(Kids))
      [] OTHER -> RelationsOf(n, SUBSET Kids)

Rbs(shape) ==
    IF shape \in {"fk_m2m", "m2m_m2m"}
    THEN [Kids -> SUBSET Grandkids] ELSE {NoRelation(Kids)}

Rcs(shape, n) ==
    IF shape = "siblings"
    THEN RelationsOf(n, SUBSET Grandkids) ELSE {NoRelation(Parents)}

InitUnpack ==
    /\ \E shape \in Shapes, n \in Parents :
         \E a \in Ras(shape, n), b \in Rbs(shape), c \in Rcs(shape, n) :
            inst = [shape |-> shape, n |-> n, ra |-> a, rb |-> b, rc |-> c]
    /\ keymap = KeymapOf(inst.shape)
    /\ rowset = JoinRows(inst)
    /\ out = << >>
    /\ table = << >>
    /\ nullsLow = TRUE
    /\ closed = FALSE
    /\ views = [v \in ViewIds |-> NoView]
    /\ ret = Ret("init", "a", << >>, 0, "")
    /\ BackendIdle

\* one round of "while objects: self.objects.append(unpack_single_object(...))"
UnpackNext ==
    /\ rowset # << >>
    /\ LET r == unpack_single_object(rowset, keymap, FALSE)
       IN /\ out' = Append(out, r.d)
          /\ rowset' = r.objects
    /\ UNCHANGED << inst, keymap, viewVars, backendVars >>

SpecUnpack == InitUnpack /\ [][UnpackNext]_vars

\* roots with two many-to-many relations, each to any set of entities
InitSiblings ==
    /\ \E n \in Parents :
         \E a \in RelationsOf(n, SUBSET Kids), c \in RelationsOf(n, SUBSET Kids) :
            inst = [shape |-> "siblings", n |-> n, ra |-> a, rb |-> NoRelation(Kids), rc |-> c]
    /\ keymap = KeymapOf(inst.shape)
    /\ rowset = JoinRows(inst)
    /\ out = << >>
    /\ table = << >>
    /\ nullsLow = TRUE
    /\ closed = FALSE
    /\ views = [v \in ViewIds |-> NoView]
    /\ ret = Ret("init", "a", << >>, 0, "")
    /\ BackendIdle

SpecSiblings == InitSiblings /\ [][UnpackNext]_vars

UnpackDone == inst.n > 0 /\ rowset = << >>

\* the root dicts are the roots 1..n of the instance, in order of first appearance
RootsPreserved ==
    /\ Len(out) = inst.n
    /\ \A p \in 1 .. inst.n : out[p].leaf.pk = p

\* C3: for every keymap, flat or with foreign-key and many-to-many branches
\* nested to any depth, unpacking a row-set with contiguous roots yields exactly
\* one dict per distinct root primary key, in order of first appearance
C3_OneDictPerRoot == UnpackDone => RootsPreserved

\* the child keys of the first relationship branch of an unpacked dict
ChildPks(d) == [j \in DOMAIN d.rel[1].items |-> d.rel[1].items[j].leaf.pk]

\* C4: a parent with N >= 1 many-to-many children, joined as N contiguous rows
\* that differ only in the child branch, unpacks to exactly one parent dict
\* whose child list has the N children in the order of the rows
C4_FanOutCollapse ==
    (UnpackDone /\ inst.shape = "m2m") =>
        \A p \in 1 .. inst.n :
            Cardinality(inst.ra[p]) >= 1 =>
                /\ Cardinality({i \in DOMAIN out : out[i].leaf.pk = p}) = 1
                /\ \A i \in DOMAIN out :
                     out[i].leaf.pk = p =>
                        ChildPks(out[i]) =
                            [j \in DOMAIN JoinRowsOf(inst, p) |-> JoinRowsOf(inst, p)[j].a_pk]

C4_Witness ==
    /\ UnpackDone /\ inst.shape = "m2m" /\ inst.n = 2
    /\ Cardinality(inst.ra[1]) = 2 /\ Cardinality(inst.ra[2]) = 1
    /\ Len(out) = 2 /\ Len(out[1].rel[1].items) = 2

(* ---------------- claims about one view ---------------- *)

\* what the current plan of q selects, unpacked and deserialized
FreshResult(q) ==
    DeserializeAll(unpack_all(ExecSelect(q, table, nullsLow), FlatKeymap))

\* C1: after limit(n) or offset(n) on a materialized view the cached results
\* are reset, so the next iteration returns what the plan with the new bounds
\* selects and never the results of the old plan
C1_IterationFollowsBounds ==
    \A v \in ViewIds :
        (views[v].alive /\ ret.op = "iter" /\ ret.view = v) =>
            ret.val = FreshResult(views[v])

\* C6: the cached count is invalidated by sort, limit and offset, so that
\* len(view) is always the number of rows the current plan selects
C6_LenFollowsPlan ==
    \A v \in ViewIds :
        (views[v].alive /\ ret.op = "len" /\ ret.view = v) =>
            ret.num = Len(ExecSelect(views[v], table, nullsLow))

ReadOps == {"iter", "as_list", "getitem", "pop"}

\* C5: between two changes of the plan the unpacking query of a view is
\* executed at most once, also when it returned no row, and iteration and
\* as_list return the cached list
C5_SingleMaterialization ==
    \A v \in ViewIds :
        /\ views[v].nmat <= 1
        /\ (views[v].alive /\ ret.view = v /\ ret.op \in ReadOps) =>
              views[v].objects # NONE
        /\ (views[v].alive /\ ret.view = v /\ ret.op \in {"iter", "as_list"}) =>
              ret.val = DeserializeAll(views[v].objects[1])

\* a second pop on a view whose only materialization returned no row
C5_Witness ==
    /\ views["a"].objects = Some(<< >>)
    /\ views["a"].nmat = 1
    /\ views["a"].npop = 2
    /\ ret.op = "pop"

YearOf(instance) == instance.attributes.leaf.birth_year

\* C8: after sort([(f, -1)]) on a view whose entities all have a value for f
\* consecutive indexed elements are non-increasing in f, and non-decreasing
\* after sort([(f, 1)])
C8_SortedByField ==
    \A v \in ViewIds :
        LET q == views[v]
            objs == DeserializeAll(q.objects[1])
        IN (/\ q.alive /\ q.objects # NONE /\ q.order_bys # NONE
            /\ Len(q.order_bys[1]) = 1
            /\ q.order_bys[1][1].column = "birth_year"
            /\ \A i \in DOMAIN objs : YearOf(objs[i]) # NULL) =>
               /\ \A i \in 2 .. Len(objs) :
                    IF q.order_bys[1][1].dir = "desc"
                    THEN YearOf(objs[i - 1]) >= YearOf(objs[i])
                    ELSE YearOf(objs[i - 1]) <= YearOf(objs[i])
               /\ (ret.op = "getitem" /\ ret.view = v /\ ret.err = "") =>
                    ret.val = << objs[ret.num + 1] >>

C8_Witness ==
    LET q == views["a"]
    IN /\ q.objects # NONE /\ q.order_bys # NONE
       /\ q.order_bys[1][1].dir = "desc"
       /\ Len(q.objects[1]) = 2
       /\ q.objects[1][1].leaf.birth_year > q.objects[1][2].leaf.birth_year
       /\ q.objects[1][1].leaf.pk > q.objects[1][2].leaf.pk
       /\ ret.op = "getitem" /\ ret.num = 1 /\ ret.err = ""

\* C9: sorting ascending by a field places the entities without the field
\* before all entities that have it, sorting descending places them after
C9_MissingKeysFirstAscending ==
    \A v \in ViewIds :
        LET q == views[v]
            objs == DeserializeAll(q.objects[1])
        IN (/\ q.alive /\ q.objects # NONE /\ q.order_bys # NONE
            /\ Len(q.order_bys[1]) = 1
            /\ q.order_bys[1][1].column = "birth_year") =>
               \A i \in DOMAIN objs, j \in DOMAIN objs :
                   (i < j) =>
                      IF q.order_bys[1][1].dir = "asc"
                      THEN ~(YearOf(objs[i]) # NULL /\ YearOf(objs[j]) = NULL)
                      ELSE ~(YearOf(objs[i]) = NULL /\ YearOf(objs[j]) # NULL)

\* C10: the k-th pop after a materialization of n results returns the element
\* at position n-k of the materialized list (counted from 0) whatever index is
\* passed, and every pop after the n-th raises IndexError
C10_PopReverseOrder ==
    \A v \in ViewIds :
        (views[v].alive /\ ret.op = "pop" /\ ret.view = v) =>
            LET q == views[v]
                n == Len(q.objects[1])
                k == q.npop
            IN IF k <= n
               THEN ret.err = "" /\ ret.val = << Deserialize(q.objects[1][n - k + 1]) >>
               ELSE ret.err = "IndexError" /\ ret.val = << >>

C10_Witness ==
    /\ ret.op = "pop" /\ ret.err = ""
    /\ views["a"].objects # NONE
    /\ Len(views["a"].objects[1]) = 2
    /\ views["a"].npop = 2
    /\ ret.val = << Deserialize(views["a"].objects[1][1]) >>

(* ---------------- claims about derived views ---------------- *)

\* C2: for 0 <= a <= b <= len(view), materializing view[a:b] yields the list
\* of the whole view sliced in memory with [a:b]
C2_SliceEquivalence ==
    [][\A a \in 0 .. MaxRows, b \in 0 .. MaxRows :
         (/\ ret'.op = "slice"
          /\ a <= b
          /\ b <= Len(ExecSelect(views["a"], table, nullsLow))
          /\ Slice("a", "b", Some(a), Some(b), NONE)) =>
            get_objects(views'["b"]).objects[1] =
                SubSeq(EnsureObjects(views["a"]).objects[1], a + 1, b)]_vars

C11_SliceLeavesOriginal ==
    [][(ret'.op = "slice" /\ ret'.err = "") =>
          /\ views'["a"].offset = views["a"].offset
          /\ views'["a"].limit = views["a"].limit
          /\ views'["a"].order_bys = views["a"].order_bys
          /\ views'["a"].objects = views["a"].objects
          /\ views'["b"].alive
          /\ views'["b"].objects = NONE
          /\ views'["b"].count = NONE]_vars

\* a materialized, sorted and limited view right after a slice of it that
\* carries other bounds
C11_Witness ==
    /\ ret.op = "slice" /\ ret.err = ""
    /\ views["a"].objects # NONE /\ views["a"].objects[1] # << >>
    /\ views["a"].order_bys # NONE
    /\ views["a"].limit # NONE
    /\ views["b"].alive
    /\ views["b"].offset # views["a"].offset
    /\ views["b"].limit # views["a"].limit

\* C12: a slice with a step other than 1 raises at once: no statement is
\* executed, not even the count query, and no view changes
C12_StepRejected ==
    [][(ret'.op = "slice" /\ ret'.num \notin {0, 1}) =>
          /\ ret'.err = "IndexError"
          /\ views' = views]_vars

\* a slice with step 2 and an open stop, rejected before the count query
C12_Witness ==
    /\ ret.op = "slice" /\ ret.err = "IndexError" /\ ret.num = 2
    /\ views["a"].count = NONE
    /\ ~views["b"].alive

\* C13: sort with a key sequence in which some field resolves to no column
\* raises AttributeError and leaves the order-by list and the materialized
\* results as they were, also when earlier keys of the sequence resolved
C13_SortUnknownField ==
    [][\A v \in ViewIds :
          (ret'.op = "sort" /\ ret'.view = v) =>
             IF \E i \in DOMAIN ret'.val : ret'.val[i].key \notin Columns
             THEN /\ ret'.err = "AttributeError"
                  /\ views'[v].order_bys = views[v].order_bys
                  /\ views'[v].objects = views[v].objects
             ELSE ret'.err = ""]_vars

\* a failed sort by (birth_year, missing) on a sorted, materialized view
C13_Witness ==
    /\ ret.op = "sort" /\ ret.err = "AttributeError"
    /\ Len(ret.val) = 2
    /\ ret.val[1].key = "birth_year" /\ ret.val[1].direction = 1
    /\ ret.val[2].key = "missing"
    /\ views["a"].order_bys = Some(<< [column |-> "birth_year", dir |-> "desc"] >>)
    /\ views["a"].objects # NONE /\ Len(views["a"].objects[1]) = 2

\* C14: when the statement of a materialization or of the count query fails,
\* the engine's error reaches the caller after the rollback of the scope,
\* the statement was tried once, and the cached results, the pop copy and the
\* count of the view are what they were
C14_ExecErrorPropagates ==
    [][\A v \in ViewIds :
          (/\ closed /\ ret'.view = v
           /\ \/ (ret'.op \in ReadOps /\ views[v].objects = NONE)
              \/ (ret'.op = "len" /\ views[v].count = NONE)) =>
             /\ ret'.err = ExecError
             /\ ret'.val = << >>
             /\ ret'.log = << "begin", "execute", "rollback" >>
             /\ views'[v].objects = views[v].objects
             /\ views'[v].pop_objects = views[v].pop_objects
             /\ views'[v].count = views[v].count]_vars

\* a failed iteration of a view whose count is cached
C14_Witness ==
    /\ closed /\ ret.op = "iter" /\ ret.err = ExecError
    /\ views["a"].objects = NONE
    /\ views["a"].count # NONE /\ views["a"].count[1] > 0

\* the open scopes after the first i events of a log
Depth(log, i) ==
    Cardinality({j \in 1 .. i : log[j] = "begin"})
      - Cardinality({j \in 1 .. i : log[j] \in {"commit", "rollback"}})

\* C15: in every call a statement is executed only inside a transaction
\* scope; every begin is followed by exactly one commit, or one rollback when
\* the statement raised, and no scope is open when the call returns
C15_ScopedTransaction ==
    LET log == ret.log
    IN /\ \A i \in DOMAIN log :
             /\ Depth(log, i) \in {0, 1}
             /\ log[i] = "execute" => Depth(log, i) = 1
             /\ log[i] = "begin" => Depth(log, i - 1) = 0
             /\ log[i] \in {"commit", "rollback"} => Depth(log, i - 1) = 1
       /\ Depth(log, Len(log)) = 0
       /\ (log # << >>) =>
             (log[Len(log)] = "rollback") = (ret.err = ExecError)
       /\ (ret.op \in {"len", "distinct_pks", "delete"} \cup ReadOps
            /\ ret.err = ExecError) => log # << >>

\* a count query that was rolled back
C15_Witness ==
    /\ ret.op = "len" /\ ret.err = ExecError
    /\ ret.log = << "begin", "execute", "rollback" >>

\* the rows a plan selects when its condition, its offset and its limit are
\* all applied
Selects(p, tbl) ==
    LET w == Where(tbl, p.condition)
        f == IF p.offset # NONE THEN Drop(w, p.offset[1]) ELSE w
    IN IF p.limit # NONE THEN Take(f, p.limit[1]) ELSE f

\* the primary keys selected by the plan of a view; for a chained filter
\* those selected by all of its operands
SelectedPks(q, tbl) ==
    LET ops == get_select(q)
    IN {r.pk : r \in {x \in Range(tbl) :
                        \A i \in DOMAIN ops : x \in Range(Selects(ops[i], tbl))}}

\* C16: after view.delete() the table holds exactly the rows whose primary
\* key the plan of the view did not select, in their order
C16_DeleteSelected ==
    [][\A v \in ViewIds :
          (ret'.op = "delete" /\ ret'.view = v /\ ~closed) =>
             table' = Without(table, SelectedPks(views[v], table))]_vars

\* C17: a view whose select override is set reads the rows of that override,
\* whatever limit, offset and order-bys were set on the view afterwards: a
\* fresh materialization, the count and the distinct keys are those of the
\* override executed as it was built
OverrideRows(q) == ExecIntersect(table, q.select[1], table, nullsLow)

C17_OverrideWins ==
    [][\A v \in ViewIds :
         (views[v].alive /\ views[v].select # NONE /\ ret'.view = v /\ ret'.err = "") =>
            /\ views'[v].nmat > views[v].nmat =>
                  views'[v].objects = Some(unpack_all(OverrideRows(views[v]), FlatKeymap))
            /\ (ret'.op = "len" /\ views[v].count = NONE) =>
                  ret'.num = Len(OverrideRows(views[v]))
            /\ ret'.op = "distinct_pks" =>
                  ret'.pks = {r.pk : r \in Range(OverrideRows(views[v]))}
            /\ ret'.op \in {"limit", "offset", "sort"} =>
                  get_select(views'[v]) = views[v].select[1]]_vars

\* an override view with a limit set on it was read and holds more objects
\* than the limit
C17_Witness ==
    \E v \in ViewIds :
        /\ views[v].alive /\ views[v].select # NONE
        /\ views[v].limit # NONE /\ views[v].order_bys # NONE
        /\ views[v].objects # NONE
        /\ Len(views[v].objects[1]) > views[v].limit[1]

\* C18: comparing a view with a plain list does not raise and answers true
\* exactly when the materialized and deserialized view equals the list
C18_EqualsList ==
    [][ret'.op = "eq" =>
          /\ ret'.err = ""
          /\ ret'.num = 1 <=> ret'.val = DeserializeAll(EnsureObjects(views[ret'.view]).objects[1])]_vars

\* q is a filter without bounds
Unbounded(q) == q.select = NONE /\ q.limit = NONE /\ q.offset = NONE

\* the keys of the committed rows that match the filter of q
MatchingPks(q) == {r.pk : r \in Range(Where(table, q.condition))}

C20_FlatUnpack ==
    [][\A v \in ViewIds :
         views'[v].nmat > views[v].nmat =>
            LET rows == ExecSelect(views[v], table, nullsLow)
                objs == views'[v].objects[1]
            IN /\ FlatKeymap.branches = << >>
               /\ \A c \in TableColumns : FlatKeymap.leaves[c] = c
               /\ Len(objs) = Len(rows)
               /\ \A i \in DOMAIN rows :
                     /\ DOMAIN objs[i].leaf = TableColumns
                     /\ \A c \in TableColumns : objs[i].leaf[c] = rows[i][c]
                     /\ objs[i].rel = << >>]_vars

\* a sorted view was materialized into several dicts, one of them with a year
C20_Witness ==
    \E v \in ViewIds :
        /\ views[v].alive /\ views[v].objects # NONE /\ views[v].nmat > 0
        /\ Len(views[v].objects[1]) > 1
        /\ views[v].objects[1][1].leaf["birth_year"] # views[v].objects[1][2].leaf["birth_year"]

\* cls is registered; a collection name is registered when it is the
\* collection of a registered class
IsRegistered(x) ==
    \/ x \in DOMAIN classes
    \/ \E c \in DOMAIN classes : classes[c] = x

\* C21: create_instance with a collection name or class that is not
\* registered raises AttributeError, whatever register and unregister calls
\* came before
C21_UnknownIsLookupError ==
    (call.op = "create_instance" /\ ~IsRegistered(call.arg)) => call.err = "AttributeError"

RECURSIVE Omitted(_)
RECURSIVE OmittedAll(_, _)
\* the parts of a list or dict that are not refused, each with its own
\* refused parts left out
OmittedAll(parts, isDict) ==
    IF parts = << >> THEN << >>
    ELSE LET value == IF isDict THEN Head(parts).v[1] ELSE Head(parts)
         IN (IF value.t = "refused" THEN << >>
             ELSE IF isDict THEN << Entry(Head(parts).t, Omitted(value)) >>
             ELSE << Omitted(value) >>)
            \o OmittedAll(Tail(parts), isDict)

\* obj serialized with every refused entry of a dict or list left out
Omitted(obj) ==
    LET o == Encode(obj).obj
    IN IF o.t \in {"dict", "list"} THEN Val(o.t, OmittedAll(o.v, o.t = "dict")) ELSE o

\* C22: serializing a dict or a list completes normally and returns the
\* structure without the entries the encoder refused, at any depth, all other
\* entries serialized as usual
C22_RefusedValueOmitted ==
    (call.op = "serialize" /\ call.arg.t \in {"dict", "list"}) =>
        call.err = "" /\ call.val = Omitted(call.arg)

\* the entries of a planned keymap that are leaves: neither dicts nor markers
LeafPaths(km) ==
    {q \in DOMAIN km : km[q] # DictNode
                        /\ q[Len(q)] \notin {"__foreign_key", "__many_to_many"}}

\* C24: the columns projected by the join planner have pairwise distinct
\* output labels, and no two leaves of the keymap hold the same label
C24_LabelsDistinct ==
    (call.op = "plan" /\ call.err = "") =>
        /\ \A i, j \in DOMAIN call.val.rows : i # j => call.val.rows[i] # call.val.rows[j]
        /\ \A q1, q2 \in LeafPaths(call.val.keymap) :
              q1 # q2 => call.val.keymap[q1] # call.val.keymap[q2]

\* C25: a planned keymap has a pk entry at its top level and in every branch
\* that carries a foreign-key or many-to-many marker
C25_PkInEveryBranch ==
    (call.op = "plan" /\ call.err = "") =>
        LET km == call.val.keymap
        IN /\ << "pk" >> \in LeafPaths(km)
           /\ \A q \in DOMAIN km :
                 q[Len(q)] \in {"__foreign_key", "__many_to_many"} =>
                    Append(SubSeq(q, 1, Len(q) - 1), "pk") \in LeafPaths(km)

\* C26: a parent without many-to-many children, joined as one row whose child
\* columns are null, unpacks to a dict whose child list is empty
C26_NoChildrenEmptyList ==
    (UnpackDone /\ inst.shape = "m2m") =>
        \A i \in DOMAIN out :
            inst.ra[out[i].leaf.pk] = {} => out[i].rel[1].items = << >>

\* the keys listed in branch b of an unpacked dict
BranchPks(d, b) == [j \in DOMAIN d.rel[b].items |-> d.rel[b].items[j].leaf.pk]

\* C27: a parent with M children in one many-to-many branch and K in a
\* sibling branch, joined as M*K rows, unpacks to one dict whose first branch
\* lists the M children once each and whose second branch lists the K
\* children once each
C27_SiblingBranches ==
    (UnpackDone /\ inst.shape = "siblings") =>
        \A p \in 1 .. inst.n :
            (inst.ra[p] # {} /\ inst.rc[p] # {}) =>
                /\ Cardinality({i \in DOMAIN out : out[i].leaf.pk = p}) = 1
                /\ \A i \in DOMAIN out :
                     out[i].leaf.pk = p =>
                        /\ Len(BranchPks(out[i], 1)) = Cardinality(inst.ra[p])
                        /\ Range(BranchPks(out[i], 1)) = inst.ra[p]
                        /\ Len(BranchPks(out[i], 2)) = Cardinality(inst.rc[p])
                        /\ Range(BranchPks(out[i], 2)) = inst.rc[p]

\* C28: once delete() has completed on a view, len of that view is 0 and
\* iterating it yields no object that is gone from the table, also when the
\* count or the results were cached before the delete
C28_DeleteIsReported ==
    [][(ret.op = "delete" /\ ret.err = "" /\ ret'.view = ret.view /\ ret'.err = "") =>
          /\ ret'.op = "len" => ret'.num = 0
          /\ ret'.op = "iter" =>
                \A i \in DOMAIN ret'.val :
                    ret'.val[i].attributes.leaf["pk"] \in {r.pk : r \in Range(table)}]_vars

\* the objects the plan of view v selects from the table
OwnResult(v) == Range(DeserializeAll(materialize(views[v]).objects[1]))

\* C29: next() or pop() on a view or on a slice of it returns an object of
\* that view's own result and leaves the iterator and the pop copy of the
\* other view as they were
C29_SliceSharesNothing ==
    [][\A v \in ViewIds, w \in ViewIds :
          (/\ v # w
           /\ views[v].alive /\ views[w].alive
           /\ ret'.op \in {"next", "pop"} /\ ret'.view = v /\ ret' # ret) =>
             /\ ret'.err = "" => ret'.val[1] \in OwnResult(v)'
             /\ views'[w].gen = views[w].gen
             /\ views'[w].pop_objects = views[w].pop_objects]_vars

====
